---- MODULE Spec2Model ----
(***************************************************************************)
(* A model of src/parser.rs: the Lexer, the binding-power tables, the      *)
(* recursive parse_bp (as an explicit call stack) and the S-expression     *)
(* Display of Expr.                                                        *)
(*                                                                         *)
(* A text is a sequence of one-character strings.  A Token is a record     *)
(* [kind, text]; an Expr is a record [type |-> "Atom", token] or           *)
(* [type |-> "Cons", head, rest].                                          *)
(***************************************************************************)
EXTENDS Integers, Sequences, FiniteSets, TLC

VARIABLES input, tokens, stack, ret, status, err, origin

vars == <<input, tokens, stack, ret, status, err, origin>>

----------------------------------------------------------------------------
(* Bounds and the alphabet of the input texts *)

MaxLen == 4

MaxRounds == 2

SymChars == {"1", "2"}

OpChars == {"+", "-", "*", "/", "(", ")"}

Chars == SymChars \cup OpChars \cup {" "}

RECURSIVE Texts(_)
Texts(n) == IF n = 0 THEN {<<>>}
            ELSE LET S == Texts(n - 1)
                 IN  S \cup {Append(s, c) : s \in {t \in S : Len(t) = n - 1}, c \in Chars}

----------------------------------------------------------------------------
(* enum Token, and its methods *)

Symbol(s) == [kind |-> "Symbol", text |-> s]

Op(s) == [kind |-> "Op", text |-> s]

None == [some |-> FALSE]

Some(v) == [some |-> TRUE, val |-> v]

is_left_paren(t) == t.kind = "Op" /\ t.text = <<"(">>

is_right_paren(t) == t.kind = "Op" /\ t.text = <<")">>

\* nud with a binding power below the infix ones
nud_low(t) == IF t.kind = "Op" /\ t.text \in {<<"+">>, <<"-">>} THEN Some(10) ELSE None

\* nud that gives every operator a prefix binding power
nud_all(t) == IF t.kind = "Op" THEN Some(30) ELSE None

nud(t) == IF t.kind = "Op" /\ t.text \in {<<"+">>, <<"-">>} THEN Some(30) ELSE None

\* led with one binding power for the four operators
led_flat(t) == IF t.kind = "Op" /\ t.text \in {<<"+">>, <<"-">>, <<"*">>, <<"/">>}
               THEN Some(<<10, 10>>) ELSE None

led(t) == IF t.kind = "Op" /\ t.text \in {<<"+">>, <<"-">>} THEN Some(<<10, 10>>)
          ELSE IF t.kind = "Op" /\ t.text \in {<<"*">>, <<"/">>} THEN Some(<<20, 20>>)
          ELSE None

----------------------------------------------------------------------------
(* struct Lexer *)

RECURSIVE replace_all(_)
replace_all(s) == IF s = <<>> THEN <<>>
                  ELSE IF Head(s) \in OpChars
                       THEN <<" ", Head(s), " ">> \o replace_all(Tail(s))
                       ELSE <<Head(s)>> \o replace_all(Tail(s))

RECURSIVE split_from(_, _)
split_from(s, word) ==
    IF s = <<>> THEN (IF word = <<>> THEN <<>> ELSE <<word>>)
    ELSE IF Head(s) = " "
         THEN (IF word = <<>> THEN <<>> ELSE <<word>>) \o split_from(Tail(s), <<>>)
         ELSE split_from(Tail(s), Append(word, Head(s)))

split_whitespace(s) == split_from(s, <<>>)

to_token(c) == IF Len(c) = 1 /\ c[1] \in OpChars THEN Op(c) ELSE Symbol(c)

reverse(s) == [i \in 1..Len(s) |-> s[Len(s) + 1 - i]]

Lexer_new(text) ==
    LET words == split_whitespace(replace_all(text))
    IN  reverse([i \in 1..Len(words) |-> to_token(words[i])])

peek(toks) == IF toks = <<>> THEN None ELSE Some(toks[Len(toks)])

popped(toks) == SubSeq(toks, 1, Len(toks) - 1)

----------------------------------------------------------------------------
(* enum Expr, and its Display *)

Atom(t) == [type |-> "Atom", token |-> t]

Cons(t, children) == [type |-> "Cons", head |-> t, rest |-> children]

NoExpr == [type |-> "None"]

\* a Display that leaves out the closing parenthesis of a Cons
RECURSIVE to_string_unclosed(_)
to_string_unclosed(e) ==
    IF e.type = "Atom" THEN e.token.text
    ELSE LET RECURSIVE each(_)
             each(i) == IF i > Len(e.rest) THEN <<>>
                        ELSE <<" ">> \o to_string_unclosed(e.rest[i]) \o each(i + 1)
         IN  <<"(">> \o e.head.text \o each(1)

RECURSIVE to_string(_)
to_string(e) ==
    IF e.type = "Atom" THEN e.token.text
    ELSE LET RECURSIVE each(_)
             each(i) == IF i > Len(e.rest) THEN <<>>
                        ELSE <<" ">> \o to_string(e.rest[i]) \o each(i + 1)
         IN  <<"(">> \o e.head.text \o each(1) \o <<")">>

----------------------------------------------------------------------------
(* The call stack of parse_bp.  A frame is one activation: its argument     *)
(* rbp, the local `token`, the local `left`, and pc, the place it is at:    *)
(*   "entry"  about to pop its first token                                  *)
(*   "group"  in the call of parse_bp(lexer, 0) after a left parenthesis    *)
(*   "prefix" in the call of parse_bp(lexer, new_rbp) after a prefix op     *)
(*   "loop"   at the head of the while loop                                 *)
(*   "infix"  in the call of parse_bp(lexer, new_rbp) after an infix op     *)
(* The top frame is the last one; a frame below the top waits in a call.    *)

NoToken == [kind |-> "None", text |-> <<>>]

Frame(rbp) == [rbp |-> rbp, pc |-> "entry", token |-> NoToken, left |-> NoExpr]

Top == stack[Len(stack)]

SetTop(f) == [stack EXCEPT ![Len(stack)] = f]

Running(pc) == status = "running" /\ stack # <<>> /\ Top.pc = pc

prefix_expr(token, right) == Cons(token, <<right>>)

\* an infix node that joins the children of a left node of the same operator
infix_expr_flat(token, left, right) ==
    IF left.type = "Cons" /\ left.head = token
    THEN Cons(token, Append(left.rest, right))
    ELSE Cons(token, <<left, right>>)

infix_expr(token, left, right) == Cons(token, <<left, right>>)

Panic(msg) ==
    /\ status' = "panic"
    /\ err' = msg
    /\ UNCHANGED <<input, tokens, stack, ret, origin>>

\* `left` at the end of parse_bp: the activation ends and its caller resumes,
\* or parse returns when it was the outermost one
Return ==
    /\ ret' = Top.left
    /\ stack' = popped(stack)
    /\ status' = IF Len(stack) = 1 THEN "done" ELSE "running"
    /\ UNCHANGED <<input, tokens, err, origin>>

\* pub fn parse
parse ==
    /\ status = "idle"
    /\ tokens' = Lexer_new(input)
    /\ stack' = <<Frame(0)>>
    /\ status' = "running"
    /\ UNCHANGED <<input, ret, err, origin>>

\* lexer.pop().expect("unexpected eof") on an exhausted lexer
pop_eof ==
    /\ Running("entry")
    /\ tokens = <<>>
    /\ Panic("unexpected eof")

\* Token::Symbol(_) => Expr::Atom(token)
pop_symbol ==
    /\ Running("entry")
    /\ tokens # <<>>
    /\ LET token == peek(tokens).val
       IN  /\ token.kind = "Symbol"
           /\ tokens' = popped(tokens)
           /\ stack' = SetTop([Top EXCEPT !.pc = "loop", !.token = token,
                                          !.left = Atom(token)])
    /\ UNCHANGED <<input, ret, status, err, origin>>

\* a group parsed with the binding power of the enclosing call
pop_left_paren_inherit ==
    /\ Running("entry")
    /\ tokens # <<>>
    /\ LET token == peek(tokens).val
       IN  /\ token.kind = "Op"
           /\ is_left_paren(token)
           /\ tokens' = popped(tokens)
           /\ stack' = Append(SetTop([Top EXCEPT !.pc = "group", !.token = token]),
                              Frame(Top.rbp))
    /\ UNCHANGED <<input, ret, status, err, origin>>

\* token.is_left_paren(): call parse_bp(lexer, 0)
pop_left_paren ==
    /\ Running("entry")
    /\ tokens # <<>>
    /\ LET token == peek(tokens).val
       IN  /\ token.kind = "Op"
           /\ is_left_paren(token)
           /\ tokens' = popped(tokens)
           /\ stack' = Append(SetTop([Top EXCEPT !.pc = "group", !.token = token]),
                              Frame(0))
    /\ UNCHANGED <<input, ret, status, err, origin>>

\* token.nud() is None: panic!("unexpected prefix op: {:?}", token)
pop_bad_prefix ==
    /\ Running("entry")
    /\ tokens # <<>>
    /\ LET token == peek(tokens).val
       IN  /\ token.kind = "Op"
           /\ ~is_left_paren(token)
           /\ ~nud(token).some
    /\ status' = "panic"
    /\ err' = "unexpected prefix op"
    /\ tokens' = popped(tokens)
    /\ UNCHANGED <<input, stack, ret, origin>>

\* token.nud() is Some(new_rbp): call parse_bp(lexer, new_rbp)
pop_prefix ==
    /\ Running("entry")
    /\ tokens # <<>>
    /\ LET token == peek(tokens).val
       IN  /\ token.kind = "Op"
           /\ ~is_left_paren(token)
           /\ nud(token).some
           /\ tokens' = popped(tokens)
           /\ stack' = Append(SetTop([Top EXCEPT !.pc = "prefix", !.token = token]),
                              Frame(nud(token).val))
    /\ UNCHANGED <<input, ret, status, err, origin>>

\* after the group's parse_bp returned: lexer.pop().expect("unmatch parentheses")
\* on an exhausted lexer
close_eof ==
    /\ Running("group")
    /\ tokens = <<>>
    /\ Panic("unmatch parentheses")

\* a group that stays in the tree as a node of its left parenthesis
close_group_keeps_paren ==
    /\ Running("group")
    /\ tokens # <<>>
    /\ tokens' = popped(tokens)
    /\ stack' = SetTop([Top EXCEPT !.pc = "loop", !.left = Cons(Top.token, <<ret>>)])
    /\ UNCHANGED <<input, ret, status, err, origin>>

\* after the group's parse_bp returned: the next token is popped, whatever it
\* is, and the group's expression is `left`
close_group ==
    /\ Running("group")
    /\ tokens # <<>>
    /\ tokens' = popped(tokens)
    /\ stack' = SetTop([Top EXCEPT !.pc = "loop", !.left = ret])
    /\ UNCHANGED <<input, ret, status, err, origin>>

\* Expr::Cons(token, vec![right])
cons_prefix ==
    /\ Running("prefix")
    /\ stack' = SetTop([Top EXCEPT !.pc = "loop", !.left = prefix_expr(Top.token, ret)])
    /\ UNCHANGED <<input, tokens, ret, status, err, origin>>

\* while let Some(token) = lexer.peek(): no token is left
loop_eof ==
    /\ Running("loop")
    /\ ~peek(tokens).some
    /\ Return

\* if token.is_right_paren() { break; }
loop_right_paren ==
    /\ Running("loop")
    /\ peek(tokens).some
    /\ is_right_paren(peek(tokens).val)
    /\ Return

\* a loop that stops at a token without infix binding power
loop_bad_token_break ==
    /\ Running("loop")
    /\ peek(tokens).some
    /\ ~is_right_paren(peek(tokens).val)
    /\ ~led(peek(tokens).val).some
    /\ Return

\* token.led() is None: panic!("unexpected token: {:?}", token)
loop_bad_token ==
    /\ Running("loop")
    /\ peek(tokens).some
    /\ ~is_right_paren(peek(tokens).val)
    /\ ~led(peek(tokens).val).some
    /\ Panic("unexpected token")

\* if lbp < rbp { break; }
loop_break ==
    /\ Running("loop")
    /\ peek(tokens).some
    /\ ~is_right_paren(peek(tokens).val)
    /\ led(peek(tokens).val).some
    /\ led(peek(tokens).val).val[1] < Top.rbp
    /\ Return

\* lexer.pop(); call parse_bp(lexer, new_rbp)
loop_infix ==
    /\ Running("loop")
    /\ peek(tokens).some
    /\ LET token == peek(tokens).val
       IN  /\ ~is_right_paren(token)
           /\ led(token).some
           /\ ~(led(token).val[1] < Top.rbp)
           /\ tokens' = popped(tokens)
           /\ stack' = Append(SetTop([Top EXCEPT !.pc = "infix", !.token = token]),
                              Frame(led(token).val[2]))
    /\ UNCHANGED <<input, ret, status, err, origin>>

\* left = Expr::Cons(token, vec![left, right])
cons_infix ==
    /\ Running("infix")
    /\ stack' = SetTop([Top EXCEPT !.pc = "loop",
                                   !.left = infix_expr(Top.token, Top.left, ret)])
    /\ UNCHANGED <<input, tokens, ret, status, err, origin>>

----------------------------------------------------------------------------
(* The input texts: every text of at most MaxLen characters, every chain    *)
(* `a op1 b op2 c`, and the texts of the tests and of the documentation.    *)

BinOpChars == {"+", "-", "*", "/"}

PrefixOpChars == {"+", "-"}

Chains == {<<a, o1, b, o2, c>> : a \in SymChars, o1 \in BinOpChars, b \in SymChars,
                                 o2 \in BinOpChars, c \in {"1"}}

\* "1 - 2 - 3"
T_sub_chain == <<"1", " ", "-", " ", "2", " ", "-", " ", "3">>

\* "1 + 2 * 3"
T_add_mul == <<"1", " ", "+", " ", "2", " ", "*", " ", "3">>

\* "1 * 2 + 3"
T_mul_add == <<"1", " ", "*", " ", "2", " ", "+", " ", "3">>

\* "-1*2 + 3"
T_prefix == <<"-", "1", "*", "2", " ", "+", " ", "3">>

\* "(-1+2) * 3"
T_group == <<"(", "-", "1", "+", "2", ")", " ", "*", " ", "3">>

\* "( -1 + 2 ) * 3 - -4"
T_group_unary == <<"(", " ", "-", "1", " ", "+", " ", "2", " ", ")", " ", "*", " ", "3", " ", "-", " ", "-", "4">>

\* "(1 + 2"
T_open == <<"(", "1", " ", "+", " ", "2">>

\* "1 2"
T_two_symbols == <<"1", " ", "2">>

\* "* 1"
T_star_first == <<"*", " ", "1">>

\* "1 + * 2"
T_plus_star == <<"1", " ", "+", " ", "*", " ", "2">>

\* "( )"
T_empty_group == <<"(", " ", ")">>

\* "1 )"
T_stray_close == <<"1", " ", ")">>

\* "1 + 2 ) 3"
T_stray_close_more == <<"1", " ", "+", " ", "2", " ", ")", " ", "3">>

Samples == {T_sub_chain, T_add_mul, T_mul_add, T_prefix,
            T_group, T_group_unary, T_open, T_two_symbols,
            T_star_first, T_plus_star, T_empty_group, T_stray_close,
            T_stray_close_more}

Inputs == Texts(MaxLen) \cup Chains \cup Samples

\* What the text being parsed was made from: "input" is a text of Inputs,
\* "render" the Display of the tree of the parse before (tree), "group" the
\* text of the parse before in parentheses between pre and post
Origin(kind, round, tree, pre, post) ==
    [kind |-> kind, round |-> round, tree |-> tree, pre |-> pre, post |-> post]

\* The texts put around a group: nothing, a prefix operator, `1 op` before it
\* or `op 2` behind it
Before == {<<>>} \cup {<<u>> : u \in PrefixOpChars} \cup {<<"1", o>> : o \in BinOpChars}

Behind == {<<>>} \cup {<<o, "2">> : o \in BinOpChars}

Init ==
    /\ input \in Inputs
    /\ tokens = <<>>
    /\ stack = <<>>
    /\ ret = NoExpr
    /\ status = "idle"
    /\ err = ""
    /\ origin = Origin("input", 1, NoExpr, <<>>, <<>>)

\* a caller parses the rendered tree again: parse(&expr.to_string())
reparse_rendered ==
    /\ status = "done"
    /\ origin.kind \in {"input", "render"}
    /\ origin.round < MaxRounds
    /\ input' = to_string(ret)
    /\ origin' = Origin("render", origin.round + 1, ret, <<>>, <<>>)
    /\ status' = "idle"
    /\ tokens' = <<>>
    /\ stack' = <<>>
    /\ ret' = NoExpr
    /\ UNCHANGED err

\* a caller parses a text whose tokens were all read, now as a group in
\* parentheses with an operator before or behind it
parse_grouped ==
    /\ status = "done"
    /\ origin.kind = "input"
    /\ origin.round < MaxRounds
    /\ tokens = <<>>
    /\ \E pre \in Before, post \in Behind :
          /\ Len(pre) < 2 \/ post = <<>>
          /\ input' = pre \o <<"(">> \o input \o <<")">> \o post
          /\ origin' = Origin("group", origin.round + 1, ret, pre, post)
    /\ status' = "idle"
    /\ tokens' = <<>>
    /\ stack' = <<>>
    /\ ret' = NoExpr
    /\ UNCHANGED err

Next ==
    \/ parse
    \/ pop_eof
    \/ pop_symbol
    \/ pop_left_paren
    \/ pop_bad_prefix
    \/ pop_prefix
    \/ close_eof
    \/ close_group
    \/ cons_prefix
    \/ loop_eof
    \/ loop_right_paren
    \/ loop_bad_token
    \/ loop_break
    \/ loop_infix
    \/ cons_infix
    \/ reparse_rendered
    \/ parse_grouped

Spec == Init /\ [][Next]_vars

----------------------------------------------------------------------------
TypeOK ==
    /\ status \in {"idle", "running", "done", "panic"}
    /\ err \in {"", "unexpected eof", "unmatch parentheses", "unexpected prefix op",
                "unexpected token"}
    /\ \A i \in 1..Len(stack) :
          stack[i].pc \in {"entry", "group", "prefix", "loop", "infix"}

----------------------------------------------------------------------------
(* Vocabulary of the properties *)

\* the tokens of the input text, from left to right
InputTokens == reverse(Lexer_new(input))

Done == status = "done"

SymbolTokens == {t \in {InputTokens[i] : i \in 1..Len(InputTokens)} : t.kind = "Symbol"}

AddOps == {Op(<<"+">>), Op(<<"-">>)}

MulOps == {Op(<<"*">>), Op(<<"/">>)}

BinOps == AddOps \cup MulOps

SameLevel(o1, o2) == (o1 \in AddOps /\ o2 \in AddOps) \/ (o1 \in MulOps /\ o2 \in MulOps)

\* the input is `a o1 b o2 c`: three symbols with two binary operators between
IsChain ==
    /\ Len(InputTokens) = 5
    /\ InputTokens[1].kind = "Symbol" /\ InputTokens[3].kind = "Symbol"
    /\ InputTokens[5].kind = "Symbol"
    /\ InputTokens[2] \in BinOps /\ InputTokens[4] \in BinOps

\* (o2 (o1 a b) c), the earlier operator as the left child
LeftNested == Cons(InputTokens[4],
                   <<Cons(InputTokens[2], <<Atom(InputTokens[1]), Atom(InputTokens[3])>>),
                     Atom(InputTokens[5])>>)

\* (o1 a (o2 b c)), the later operator as the right child
RightNested == Cons(InputTokens[2],
                    <<Atom(InputTokens[1]),
                      Cons(InputTokens[4], <<Atom(InputTokens[3]), Atom(InputTokens[5])>>)>>)

----------------------------------------------------------------------------
\* C1: binary operators of the same precedence level are left-associative:
\* the tree of `a op1 b op2 c` is (op2 (op1 a b) c), and "1 - 2 - 3" renders
\* as "(- (- 1 2) 3)".
C1_LeftAssociative ==
    /\ (Done /\ IsChain /\ SameLevel(InputTokens[2], InputTokens[4])) => ret = LeftNested
    /\ (Done /\ input = T_sub_chain) =>
          to_string(ret) = <<"(", "-", " ", "(", "-", " ", "1", " ", "2", ")", " ", "3", ")">>

\* C3: parse returns a tree only when every token of the input has been read:
\* a `)` without its `(` is a failure of the outermost call.
C3_AllTokensRead == Done => tokens = <<>>

\* C4: `*` and `/` bind tighter than `+` and `-`: `a add b mul c` is
\* (add a (mul b c)) and `a mul b add c` is (add (mul a b) c).
C4_Precedence ==
    /\ (Done /\ IsChain /\ InputTokens[2] \in AddOps /\ InputTokens[4] \in MulOps)
          => ret = RightNested
    /\ (Done /\ IsChain /\ InputTokens[2] \in MulOps /\ InputTokens[4] \in AddOps)
          => ret = LeftNested
    /\ (Done /\ input = T_add_mul) =>
          to_string(ret) = <<"(", "+", " ", "1", " ", "(", "*", " ", "2", " ", "3", ")", ")">>
    /\ (Done /\ input = T_mul_add) =>
          to_string(ret) = <<"(", "+", " ", "(", "*", " ", "1", " ", "2", ")", " ", "3", ")">>

C4_Witness ==
    /\ Done /\ IsChain /\ origin.kind = "input"
    /\ InputTokens[2] \in MulOps /\ InputTokens[4] \in AddOps
    /\ InputTokens[1] # InputTokens[3]
    /\ ret = LeftNested

\* the input is `u a op b`: a prefix operator, a symbol, a binary operator, a symbol
IsPrefixed ==
    /\ Len(InputTokens) = 4
    /\ InputTokens[1] \in AddOps
    /\ InputTokens[2].kind = "Symbol" /\ InputTokens[4].kind = "Symbol"
    /\ InputTokens[3] \in BinOps

\* (op (u a) b)
PrefixFirst == Cons(InputTokens[3],
                    <<Cons(InputTokens[1], <<Atom(InputTokens[2])>>), Atom(InputTokens[4])>>)

\* C5: a prefix `+` or `-` binds tighter than every binary operator: the call
\* that parses the operand of a prefix operator never takes an infix operator,
\* `u a op b` is (op (u a) b), and "-1*2 + 3" renders as "(+ (* (- 1) 2) 3)".
C5_PrefixBindsTighter ==
    /\ \A i \in 1..(Len(stack) - 1) : stack[i].pc = "prefix" => stack[i + 1].pc # "infix"
    /\ (Done /\ IsPrefixed) => ret = PrefixFirst
    /\ (Done /\ input = T_prefix) =>
          to_string(ret) = <<"(", "+", " ", "(", "*", " ", "(", "-", " ", "1", ")",
                             " ", "2", ")", " ", "3", ")">>

C5_Witness ==
    /\ Done /\ IsPrefixed /\ origin.kind = "input"
    /\ InputTokens[3] \in MulOps
    /\ ret = PrefixFirst

\* C7: after the sub-expression of a `(`, the next token is popped: it is
\* always `)`, and with no token left the parse fails with "unmatch parentheses".
C7_GroupCloser ==
    [][Running("group") =>
          IF tokens = <<>>
          THEN status' = "panic" /\ err' = "unmatch parentheses"
          ELSE /\ is_right_paren(peek(tokens).val)
               /\ tokens' = popped(tokens)
               /\ status' = "running"]_vars

C7_Witness ==
    /\ input = T_open
    /\ status = "panic" /\ err = "unmatch parentheses"
    /\ Top.pc = "group" /\ ret = Cons(Op(<<"+">>), <<Atom(Symbol(<<"1">>)), Atom(Symbol(<<"2">>))>>)

\* C8: a Symbol or a `(` right after a complete left-hand expression makes the
\* parse fail with "unexpected token"; the token is not consumed and no tree
\* is returned.
C8_UnexpectedToken ==
    [][(/\ Running("loop")
        /\ peek(tokens).some
        /\ (peek(tokens).val.kind = "Symbol" \/ is_left_paren(peek(tokens).val)))
       => (status' = "panic" /\ err' = "unexpected token" /\ tokens' = tokens)]_vars

C8_Witness ==
    /\ input = T_two_symbols
    /\ status = "panic" /\ err = "unexpected token"
    /\ tokens = <<Symbol(<<"2">>)>>

\* C9: a `*`, `/` or `)` popped at the start of an operand makes the parse
\* fail with "unexpected prefix op", and no tree is returned.
C9_UnexpectedPrefixOperator ==
    [][(/\ Running("entry")
        /\ peek(tokens).some
        /\ peek(tokens).val \in MulOps \cup {Op(<<")">>)})
       => (status' = "panic" /\ err' = "unexpected prefix op")]_vars

C9_Witness ==
    /\ input = T_plus_star
    /\ status = "panic" /\ err = "unexpected prefix op"
    /\ tokens = <<Symbol(<<"2">>)>>

RECURSIVE WellFormed(_)
WellFormed(e) ==
    \/ e.type = "Atom" /\ e.token.kind = "Symbol"
    \/ /\ e.type = "Cons"
       /\ e.head.kind = "Op"
       /\ Len(e.rest) \in {1, 2}
       /\ \A i \in 1..Len(e.rest) : WellFormed(e.rest[i])

\* C10: every tree parse returns is well-formed: an Atom holds a Symbol, a
\* Cons holds an Op and has exactly one or exactly two children.
C10_WellFormed == Done => WellFormed(ret)

C10_Witness ==
    /\ Done /\ input = T_group_unary
    /\ ret.type = "Cons" /\ Len(ret.rest) = 2
    /\ ret.rest[2].type = "Cons" /\ Len(ret.rest[2].rest) = 1

RECURSIVE NoBinary(_)
NoBinary(e) ==
    \/ e.type = "Atom"
    \/ e.type = "Cons" /\ Len(e.rest) = 1 /\ NoBinary(e.rest[1])

\* C2 as claimed: parsing the rendering of a returned tree returns a tree, and
\* it is the same tree.
C2_RoundTrip ==
    origin.kind = "render" => (status # "panic" /\ (Done => ret = origin.tree))

\* C2, amended: the rendering of a returned tree without a two-child node
\* parses, completely, to the same tree; the rendering of a tree with a
\* two-child node never parses to a tree.
C2_RoundTripUnary ==
    /\ (origin.kind = "render" /\ NoBinary(origin.tree))
          => (status # "panic" /\ (Done => (ret = origin.tree /\ tokens = <<>>)))
    /\ (origin.kind = "render" /\ ~NoBinary(origin.tree)) => ~Done

C2_Witness ==
    /\ origin.kind = "render" /\ Done
    /\ origin.tree.type = "Cons" /\ origin.tree.rest[1].type = "Cons"
    /\ ret = origin.tree

RECURSIVE NoParens(_)
NoParens(e) ==
    \/ e.type = "Atom" /\ ~is_left_paren(e.token) /\ ~is_right_paren(e.token)
    \/ /\ e.type = "Cons"
       /\ ~is_left_paren(e.head) /\ ~is_right_paren(e.head)
       /\ \A i \in 1..Len(e.rest) : NoParens(e.rest[i])

\* the tree of pre ( E ) post, where tree is the tree of E
Grouped(pre, tree, post) ==
    LET operand == IF Len(pre) = 1 THEN Cons(Op(pre), <<tree>>)
                   ELSE IF Len(pre) = 2
                        THEN Cons(Op(<<pre[2]>>), <<Atom(Symbol(<<pre[1]>>)), tree>>)
                        ELSE tree
    IN  IF post = <<>> THEN operand
        ELSE Cons(Op(<<post[1]>>), <<operand, Atom(Symbol(<<post[2]>>))>>)

\* C6: grouping leaves no trace and overrides precedence: no node of a
\* returned tree carries a parenthesis; a text E that parses completely to a
\* tree, put in parentheses, is one operand, the tree of E, of the operator
\* before or behind it; "(-1+2) * 3" renders as "(* (+ (- 1) 2) 3)" and
\* "( -1 + 2 ) * 3 - -4" as "(- (* (+ (- 1) 2) 3) (- 4))".
C6_Grouping ==
    /\ Done => NoParens(ret)
    /\ origin.kind = "group" =>
          /\ status # "panic"
          /\ Done => (ret = Grouped(origin.pre, origin.tree, origin.post) /\ tokens = <<>>)
    /\ (Done /\ input = T_group) =>
          to_string(ret) = <<"(", "*", " ", "(", "+", " ", "(", "-", " ", "1", ")",
                             " ", "2", ")", " ", "3", ")">>
    /\ (Done /\ input = T_group_unary) =>
          to_string(ret) = <<"(", "-", " ", "(", "*", " ", "(", "+", " ", "(", "-", " ",
                             "1", ")", " ", "2", ")", " ", "3", ")", " ", "(", "-", " ",
                             "4", ")", ")">>

C6_Witness ==
    /\ origin.kind = "group" /\ Done
    /\ origin.pre = <<"1", "*">>
    /\ origin.tree.type = "Cons" /\ origin.tree.head \in AddOps /\ Len(origin.tree.rest) = 2
    /\ ret = Cons(Op(<<"*">>), <<Atom(Symbol(<<"1">>)), origin.tree>>)

====
